---- MODULE Spec2Model ----
(***************************************************************************)
(* Model of the prism-insight dashboard components:                        *)
(*   - LanguageProvider / useLanguage                                      *)
(*       (examples/dashboard/components/language-provider.tsx)             *)
(*   - TradingHistoryPage (trading-history page component)                 *)
(*                                                                         *)
(* Encoding of JavaScript values                                           *)
(*   - an optional value (undefined / null / a missing property) is a      *)
(*     sequence of length 0 or 1: <<>> is "absent", <<v>> is "present v"   *)
(*   - the result of a property read obj[key] is a record                  *)
(*     [type |-> "string" | "undefined" | "function" | "object",           *)
(*      str  |-> the string, or the name of the function / object]         *)
(*   - a JavaScript number that is the quotient of two integers is kept    *)
(*     exact as [num |-> a, den |-> b]                                     *)
(* Dictionary strings that are not ASCII are written as "<ko key>".        *)
(***************************************************************************)
EXTENDS Integers, Sequences, FiniteSets, TLC

(***************************************************************************)
(* Bounds                                                                  *)
(***************************************************************************)
NumProviders == 2
MaxTrades == 4
MaxItems == 1

Providers == 1..NumProviders

(***************************************************************************)
(* language-provider.tsx                                                   *)
(***************************************************************************)
Language == {"ko", "en"}

\* Values localStorage may hold under the key "language" when a provider
\* starts: nothing, a supported locale, or any other string.
StorageValues == {<<>>, <<"ko">>, <<"en">>, <<"fr">>}

Str(s) == [type |-> "string", str |-> s]
Undefined == [type |-> "undefined", str |-> ""]
Fn(name) == [type |-> "function", str |-> name]
Obj(name) == [type |-> "object", str |-> name]

\* Properties every object literal inherits from Object.prototype.
ObjectPrototype ==
  [k \in {"constructor", "toString", "toLocaleString", "valueOf",
          "hasOwnProperty", "isPrototypeOf", "propertyIsEnumerable",
          "__proto__"} |->
     IF k = "constructor" THEN Fn("Object")
     ELSE IF k = "__proto__" THEN Obj("Object.prototype")
     ELSE Fn(k)]

\* JavaScript truthiness of a value read from an object.
Truthy(v) ==
  CASE v.type = "string" -> v.str # ""
    [] v.type = "undefined" -> FALSE
    [] OTHER -> TRUE

KoKeys ==
  {"header.season", "header.openSource", "header.tooltip.openSource",
   "header.startDate", "header.updated", "header.realtimeUpdate",
   "header.dashboard", "header.aiDecisions", "header.trading",
   "header.watchlist", "header.tooltip.github", "header.tooltip.telegram",
   "header.tooltip.theme", "loading.text", "table.realPortfolio",
   "table.simulator", "table.stock", "table.quantity", "table.avgPrice",
   "table.currentPrice", "table.profitRate", "table.profitAmount",
   "table.totalValue", "metrics.totalReturn", "metrics.winRate",
   "metrics.avgReturn", "metrics.avgHoldingDays", "metrics.totalTrades",
   "metrics.wins", "metrics.losses", "common.won", "common.krw",
   "common.percent", "common.days", "common.trades"}

KoAscii ==
  [k \in {"header.season", "header.openSource", "common.krw",
          "common.percent"} |->
     CASE k = "header.season" -> "Season 2"
       [] k = "header.openSource" -> "Open Source"
       [] k = "common.krw" -> "<won sign>"
       [] k = "common.percent" -> "%"]

EnDict ==
  [k \in KoKeys |->
     CASE k = "header.season" -> "Season 2"
       [] k = "header.openSource" -> "Open Source"
       [] k = "header.tooltip.openSource" ->
            "AI-powered Stock Analysis & Trading System - MIT License"
       [] k = "header.startDate" -> "Start: 2025.09.29"
       [] k = "header.updated" -> "Updated"
       [] k = "header.realtimeUpdate" -> "Real-time Update"
       [] k = "header.dashboard" -> "Dashboard"
       [] k = "header.aiDecisions" -> "AI Holdings"
       [] k = "header.trading" -> "Trades"
       [] k = "header.watchlist" -> "Watchlist"
       [] k = "header.tooltip.github" -> "GitHub Repository"
       [] k = "header.tooltip.telegram" -> "Telegram Channel"
       [] k = "header.tooltip.theme" -> "Toggle Theme"
       [] k = "loading.text" -> "Loading data..."
       [] k = "table.realPortfolio" -> "Real Trading Portfolio"
       [] k = "table.simulator" -> "Prism Simulator"
       [] k = "table.stock" -> "Stock"
       [] k = "table.quantity" -> "Qty"
       [] k = "table.avgPrice" -> "Avg Price"
       [] k = "table.currentPrice" -> "Current"
       [] k = "table.profitRate" -> "Return"
       [] k = "table.profitAmount" -> "P&L"
       [] k = "table.totalValue" -> "Value"
       [] k = "metrics.totalReturn" -> "Total Return"
       [] k = "metrics.winRate" -> "Win Rate"
       [] k = "metrics.avgReturn" -> "Avg Return"
       [] k = "metrics.avgHoldingDays" -> "Avg Days"
       [] k = "metrics.totalTrades" -> "Total Trades"
       [] k = "metrics.wins" -> "Wins"
       [] k = "metrics.losses" -> "Losses"
       [] k = "common.won" -> "KRW"
       [] k = "common.krw" -> "<won sign>"
       [] k = "common.percent" -> "%"
       [] k = "common.days" -> "d"
       [] k = "common.trades" -> "trades"]

KoDict ==
  [k \in KoKeys |->
     IF k \in DOMAIN KoAscii THEN KoAscii[k] ELSE "<ko " \o k \o ">"]

\* Variant: both dictionaries define the two fallback keys.
translationsWithFallback ==
  [l \in Language |->
     [k \in KoKeys \cup {"common.other", "common.unclassified"} |->
        IF k \in KoKeys THEN (IF l = "ko" THEN KoDict[k] ELSE EnDict[k])
        ELSE IF l = "ko" THEN "<ko " \o k \o ">"
        ELSE IF k = "common.other" THEN "Other" ELSE "Unclassified"]]

translations == [l \in Language |-> IF l = "ko" THEN KoDict ELSE EnDict]

\* obj[key] on an object literal: the own property, else the property
\* inherited from Object.prototype, else undefined.
Get(obj, key) ==
  IF key \in DOMAIN obj THEN Str(obj[key])
  ELSE IF key \in DOMAIN ObjectPrototype THEN ObjectPrototype[key]
  ELSE Undefined

\* a || b
Or(a, b) == IF Truthy(a) THEN a ELSE b

\* const t = (key) => translations[language][key] || key
t(lang, key) == Or(Get(translations[lang], key), Str(key))

\* Keys t is called with: keys of the dictionary, keys the trading-history
\* page asks for, an unknown key, and a key naming an inherited property.
TKeys ==
  {"header.trading", "common.days", "common.percent", "common.other",
   "common.unclassified", "nonexistent.key", "constructor"}

(***************************************************************************)
(* TradingHistoryPage                                                      *)
(***************************************************************************)
\* The five optional free-text fields of a scenario.
NoTexts ==
  [rationale |-> <<>>, portfolio_analysis |-> <<>>,
   valuation_analysis |-> <<>>, sector_outlook |-> <<>>,
   market_condition |-> <<>>]

\* A scenario with all the fields the page reads; every field is optional.
FullScenario(sector, period, target, texts, scenarios) ==
  <<[sector |-> sector, investment_period |-> period,
     target_price |-> target,
     rationale |-> texts.rationale,
     portfolio_analysis |-> texts.portfolio_analysis,
     valuation_analysis |-> texts.valuation_analysis,
     sector_outlook |-> texts.sector_outlook,
     market_condition |-> texts.market_condition,
     trading_scenarios |-> scenarios]>>

\* A scenario that has at most a sector and an investment_period.
Scenario(sector, period) == FullScenario(sector, period, <<>>, NoTexts, <<>>)

\* A trade bought at 10000: profit_rate is
\* (sell_price - buy_price) / buy_price * 100.
Trade(id, rate, scenario) ==
  [id |-> id, profit_rate |-> rate, sell_price |-> 10000 + 100 * rate,
   scenario |-> scenario]

\* The trades the histories are built from: two trades of one sector, five
\* distinct sectors, equal profit rates, a trade without scenario, one
\* without investment_period, labels equal to the fallback keys, a label
\* naming an Object.prototype property, and empty-string labels.
TradePool ==
  { Trade(1, 5, Scenario(<<"tech">>, <<"short">>)),
    Trade(2, -3, Scenario(<<"tech">>, <<"long">>)),
    Trade(3, 10, Scenario(<<"finance">>, <<"short">>)),
    Trade(4, 5, Scenario(<<"bio">>, <<>>)),
    Trade(5, -3, Scenario(<<"energy">>, <<"long">>)),
    Trade(6, 10, <<>>),
    Trade(7, 0, Scenario(<<"common.other">>, <<"common.unclassified">>)),
    Trade(8, 5, Scenario(<<"constructor">>, <<"constructor">>)),
    Trade(9, -3, Scenario(<<"">>, <<"">>)) }

\* Trade lists of at most MaxTrades trades with distinct ids.
Histories ==
  UNION { { h \in [1..n -> TradePool] :
              \A i, j \in 1..n : h[i].id = h[j].id => i = j } :
          n \in 0..MaxTrades }

\* An optional text: absent, empty or filled.
OptTexts == {<<>>, <<"">>, <<"text">>}

\* An optional text that is absent or filled.
OptFilled == {<<>>, <<"text">>}

\* An optional list of at most MaxItems texts.
OptLists ==
  {<<>>} \cup { <<list>> : list \in UNION { [1..n -> {"item"}] : n \in 0..MaxItems } }

KeyLevels ==
  {<<>>} \cup
  { <<levels>> : levels \in [primary_support : OptFilled,
                             secondary_support : OptFilled,
                             primary_resistance : OptFilled,
                             secondary_resistance : OptFilled] }

TradingScenarios ==
  {<<>>} \cup
  { <<scenarios>> : scenarios \in [key_levels : KeyLevels,
                                   sell_triggers : OptLists,
                                   hold_conditions : OptLists,
                                   portfolio_context : OptFilled] }

Texts ==
  [rationale : OptTexts, portfolio_analysis : OptFilled,
   valuation_analysis : OptFilled, sector_outlook : OptFilled,
   market_condition : OptFilled]

\* sell_price with the target_price of the scenario (absent, 0 or a price);
\* none of the quotients lies halfway between two integers.
Prices ==
  { <<11000, <<>> >>, <<11000, <<0>> >>, <<11000, <<10000>> >>,
    <<1, <<3>> >>, <<2, <<3>> >> }

\* Single trades for the detail card: without a scenario, or with a scenario
\* in which every optional field is independently present or not.
DetailTrades ==
  { [id |-> 1, profit_rate |-> 10, sell_price |-> 11000, scenario |-> <<>>] }
    \cup
  { [id |-> 1, profit_rate |-> 10, sell_price |-> price[1],
     scenario |-> FullScenario(<<"tech">>, <<"short">>, price[2], texts,
                               scenarios)] :
      price \in Prices, texts \in Texts, scenarios \in TradingScenarios }

\* summary.trading of a dashboard without trades: no field is set.
EmptySummary ==
  [total_trades |-> <<>>, win_rate |-> <<>>, avg_profit_rate |-> <<>>,
   avg_holding_days |-> <<>>]

\* The summaries the page is given: the empty one and a filled one.
Summaries ==
  { EmptySummary,
    [total_trades |-> <<3>>, win_rate |-> <<67>>, avg_profit_rate |-> <<4>>,
     avg_holding_days |-> <<12>>] }

\* Variant: a sentinel below every rate instead of the neutral zero.
PlaceholderSentinel == [profit_rate |-> -1000]

\* { profit_rate: 0 }
Placeholder == [profit_rate |-> 0]

\* history[0] || { profit_rate: 0 }
FirstOrPlaceholder(history) ==
  IF Len(history) > 0 THEN history[1] ELSE Placeholder

\* Variant: the comparison of the worst-trade reduction copied into the
\* best-trade reduction.
BestReducerFlipped(best, trade) ==
  IF trade.profit_rate < best.profit_rate THEN trade ELSE best

\* (best, trade) => (trade.profit_rate > best.profit_rate) ? trade : best
BestReducer(best, trade) ==
  IF trade.profit_rate > best.profit_rate THEN trade ELSE best

\* Variant: the worst-trade comparison with <= (a later trade of equal
\* profit_rate replaces the earlier one).
WorstReducerNonStrict(worst, trade) ==
  IF trade.profit_rate <= worst.profit_rate THEN trade ELSE worst

\* (worst, trade) => (trade.profit_rate < worst.profit_rate) ? trade : worst
WorstReducer(worst, trade) ==
  IF trade.profit_rate < worst.profit_rate THEN trade ELSE worst

\* history.reduce(BestReducer, history[0] || { profit_rate: 0 })
bestTrade(history) ==
  LET F[i \in 0..Len(history)] ==
        IF i = 0 THEN FirstOrPlaceholder(history)
        ELSE BestReducer(F[i - 1], history[i])
  IN F[Len(history)]

\* history.reduce(WorstReducer, history[0] || { profit_rate: 0 })
worstTrade(history) ==
  LET F[i \in 0..Len(history)] ==
        IF i = 0 THEN FirstOrPlaceholder(history)
        ELSE WorstReducer(F[i - 1], history[i])
  IN F[Len(history)]

\* An optional string as the value a property read yields.
Val(opt) == IF opt = <<>> THEN Undefined ELSE Str(opt[1])

\* trade.scenario?.sector
ScenarioSector(trade) ==
  IF trade.scenario = <<>> THEN Undefined
  ELSE Val(trade.scenario[1].sector)

\* trade.scenario?.investment_period
ScenarioPeriod(trade) ==
  IF trade.scenario = <<>> THEN Undefined
  ELSE Val(trade.scenario[1].investment_period)

\* trade.scenario?.sector || t("common.other")
SectorLabel(lang, trade) ==
  Or(ScenarioSector(trade), t(lang, "common.other"))

\* trade.scenario?.investment_period || t("common.unclassified")
PeriodLabel(lang, trade) ==
  Or(ScenarioPeriod(trade), t(lang, "common.unclassified"))

\* a / b, kept exact.
Div(a, b) == [num |-> a, den |-> b]

\* The accumulator {} as Record<string, {total, count, avgProfit}> is the
\* sequence of its own properties in insertion order.
OwnKeys(acc) == { acc[i].key : i \in 1..Len(acc) }

IndexOf(acc, key) == CHOOSE i \in 1..Len(acc) : acc[i].key = key

\* acc[key] is truthy: an own entry, or a property of Object.prototype.
HasTruthy(acc, key) ==
  key \in OwnKeys(acc) \/ Truthy(Get(<<>>, key))

\* Variant: the average taken before the count is incremented (a fresh
\* group divides by one).
AccumulateStaleCount(entry, trade) ==
  [key |-> entry.key,
   total |-> entry.total + trade.profit_rate,
   count |-> entry.count + 1,
   avgProfit |-> Div(entry.total + trade.profit_rate,
                     IF entry.count = 0 THEN 1 ELSE entry.count)]

\* total += profit_rate; count += 1; avgProfit = total / count
Accumulate(entry, trade) ==
  [key |-> entry.key,
   total |-> entry.total + trade.profit_rate,
   count |-> entry.count + 1,
   avgProfit |-> Div(entry.total + trade.profit_rate, entry.count + 1)]

\* One step of the grouping reduce for a trade whose label is key.  When
\* acc[key] is an inherited property, the three assignments go to that
\* inherited object and acc gets no own property.
GroupReducer(acc, trade, key) ==
  IF key \in OwnKeys(acc)
    THEN [acc EXCEPT ![IndexOf(acc, key)] = Accumulate(@, trade)]
  ELSE IF HasTruthy(acc, key)
    THEN acc
  ELSE Append(acc, Accumulate([key |-> key, total |-> 0, count |-> 0,
                                avgProfit |-> Div(0, 1)], trade))

\* history.reduce(..., {}) keyed by the sector label
sectorPerformance(lang, history) ==
  LET F[i \in 0..Len(history)] ==
        IF i = 0 THEN <<>>
        ELSE GroupReducer(F[i - 1], history[i],
                          SectorLabel(lang, history[i]).str)
  IN F[Len(history)]

\* history.reduce(..., {}) keyed by the investment-period label
periodPerformance(lang, history) ==
  LET F[i \in 0..Len(history)] ==
        IF i = 0 THEN <<>>
        ELSE GroupReducer(F[i - 1], history[i],
                          PeriodLabel(lang, history[i]).str)
  IN F[Len(history)]

\* Variant: ascending comparator a.avgProfit - b.avgProfit.
CompareAvgAscending(a, b) ==
  a.avgProfit.num * b.avgProfit.den - b.avgProfit.num * a.avgProfit.den

\* ([, a], [, b]) => b.avgProfit - a.avgProfit
CompareAvg(a, b) ==
  b.avgProfit.num * a.avgProfit.den - a.avgProfit.num * b.avgProfit.den

\* Array.prototype.sort is stable: an entry goes behind every earlier entry
\* that the comparator does not put after it.
Insert(sorted, x) ==
  LET k == Cardinality({ i \in 1..Len(sorted) : CompareAvg(sorted[i], x) <= 0 })
  IN SubSeq(sorted, 1, k) \o <<x>> \o SubSeq(sorted, k + 1, Len(sorted))

\* entries.sort(([, a], [, b]) => b.avgProfit - a.avgProfit)
SortByAvg(array) ==
  LET F[i \in 0..Len(array)] ==
        IF i = 0 THEN <<>> ELSE Insert(F[i - 1], array[i])
  IN F[Len(array)]

\* array.slice(0, n)
Slice(array, n) == SubSeq(array, 1, IF Len(array) < n THEN Len(array) ELSE n)

TopN == 3

\* Object.entries(sectorPerformance).sort(...).slice(0, 3)
sortedSectors(perf) == Slice(SortByAvg(perf), TopN)

\* trade.scenario?.target_price
ScenarioTarget(trade) ==
  IF trade.scenario = <<>> THEN <<>> ELSE trade.scenario[1].target_price

\* Truthiness of an optional number: undefined and 0 are falsy.
TruthyNumber(opt) == opt # <<>> /\ opt[1] # 0

\* Variant: the quotient truncated instead of rounded.
ToFixed0Truncated(q) == ToString(q.num \div q.den)

\* x.toFixed(0) for x = q.num / q.den: the nearest integer, a tie going away
\* from zero, in decimal notation.
ToFixed0(q) ==
  LET neg == (q.num < 0) # (q.den < 0)
      n == IF q.num < 0 THEN -q.num ELSE q.num
      d == IF q.den < 0 THEN -q.den ELSE q.den
      r == (2 * n + d) \div (2 * d)
  IN IF neg /\ r # 0 THEN "-" \o ToString(r) ELSE ToString(r)

\* The target-achievement cell:
\* trade.scenario?.target_price
\*   ? `${((trade.sell_price / trade.scenario.target_price) * 100).toFixed(0)}%`
\*   : "-"
AchievementCell(trade) ==
  IF TruthyNumber(ScenarioTarget(trade))
    THEN ToFixed0(Div(trade.sell_price * 100, ScenarioTarget(trade)[1])) \o "%"
    ELSE "-"

\* Variant: the empty-state card without its history.length === 0 guard.
SectionsUnguarded(history, sectors, periods) ==
  {"statCards", "detailCard", "emptyState"}
    \cup (IF Len(history) > 0 THEN {"bestWorstCards"} ELSE {})
    \cup (IF Len(history) > 0 /\ Len(sectors) > 0 THEN {"sectorCard"} ELSE {})
    \cup (IF Len(history) > 0 /\ Len(periods) > 0 THEN {"periodCard"} ELSE {})

\* The blocks of the returned element tree.
Sections(history, sectors, periods) ==
  {"statCards", "detailCard"}
    \cup (IF Len(history) > 0 THEN {"bestWorstCards"} ELSE {})
    \cup (IF Len(history) > 0 /\ Len(sectors) > 0 THEN {"sectorCard"} ELSE {})
    \cup (IF Len(history) > 0 /\ Len(periods) > 0 THEN {"periodCard"} ELSE {})
    \cup (IF Len(history) = 0 THEN {"emptyState"} ELSE {})

\* Object.keys(periodPerformance).length > 0 &&
\*   Object.entries(periodPerformance).map(([period, data]) => <div .../>)
PeriodRows(history, periods) ==
  IF Len(history) > 0 /\ Len(periods) > 0
    THEN [i \in 1..Len(periods) |->
            [period |-> periods[i].key, count |-> periods[i].count,
             avgProfit |-> periods[i].avgProfit]]
  ELSE <<>>

\* history.map((trade) => <Card key={trade.id} ...>)
DetailRows(history) == [i \in 1..Len(history) |-> history[i].id]

\* value && (<element/>) for an optional string: the element, or nothing.
WhenText(opt, element) == IF Truthy(Val(opt)) THEN {element} ELSE {}

\* Variant: the list guard without the length test.
WhenItemsUnchecked(opt, element) == IF opt # <<>> THEN {element} ELSE {}

\* list && list.length > 0 && (<element/>)
WhenItems(opt, element) ==
  IF opt # <<>> /\ Len(opt[1]) > 0 THEN {element} ELSE {}

\* The key-levels block of a trading-scenario structure.
KeyLevelElements(levels) ==
  IF levels = <<>> THEN {}
  ELSE {"keyLevels"}
         \cup WhenText(levels[1].primary_support, "primarySupport")
         \cup WhenText(levels[1].secondary_support, "secondarySupport")
         \cup WhenText(levels[1].primary_resistance, "primaryResistance")
         \cup WhenText(levels[1].secondary_resistance, "secondaryResistance")

\* The trading-scenario block.
TradingScenarioElements(scenarios) ==
  IF scenarios = <<>> THEN {}
  ELSE {"tradingScenarios"}
         \cup KeyLevelElements(scenarios[1].key_levels)
         \cup WhenItems(scenarios[1].sell_triggers, "sellTriggers")
         \cup WhenItems(scenarios[1].hold_conditions, "holdConditions")
         \cup WhenText(scenarios[1].portfolio_context, "portfolioContext")

\* The AI-scenario section of one trade card: the elements it contains.  The
\* rationale box with its heading is not guarded; only its text is.
ScenarioElements(trade) ==
  IF trade.scenario = <<>> THEN {}
  ELSE LET scenario == trade.scenario[1]
       IN {"scenarioSection", "rationaleBox"}
            \cup WhenText(scenario.rationale, "rationaleText")
            \cup WhenText(scenario.portfolio_analysis, "portfolioAnalysis")
            \cup WhenText(scenario.valuation_analysis, "valuationAnalysis")
            \cup WhenText(scenario.sector_outlook, "sectorOutlook")
            \cup WhenText(scenario.market_condition, "marketCondition")
            \cup TradingScenarioElements(scenario.trading_scenarios)

\* items.map((item, idx) => <li key={idx}>{item}</li>) of a rendered list.
ListItems(trade, field) ==
  IF trade.scenario = <<>> \/ trade.scenario[1].trading_scenarios = <<>>
    THEN <<>>
  ELSE LET list == trade.scenario[1].trading_scenarios[1][field]
       IN IF list # <<>> /\ Len(list[1]) > 0 THEN list[1] ELSE <<>>

\* What the card of one trade shows, as far as it depends on the scenario.
RenderRow(trade) ==
  [id |-> trade.id,
   achievement |-> AchievementCell(trade),
   elements |-> ScenarioElements(trade),
   sellTriggerItems |-> ListItems(trade, "sell_triggers"),
   holdConditionItems |-> ListItems(trade, "hold_conditions")]

\* The cards of the detail list.
DetailCards(history) == [i \in 1..Len(history) |-> RenderRow(history[i])]

\* value || 0 for an optional number.
OrZero(opt) == IF TruthyNumber(opt) THEN opt[1] ELSE 0

\* The numbers of the four summary stat cards:
\* total_trades || 0, win_rate || 0, avg_profit_rate || 0,
\* avg_holding_days || 0.
StatCards(summary) ==
  [total_trades |-> OrZero(summary.total_trades),
   win_rate |-> OrZero(summary.win_rate),
   avg_profit_rate |-> OrZero(summary.avg_profit_rate),
   avg_holding_days |-> OrZero(summary.avg_holding_days)]

\* Variant: the best trade found by sorting history in place, the highest
\* profit_rate first.
HistoryAfterRenderSorted(history) ==
  LET before(x, sorted) ==
        Cardinality({ i \in 1..Len(sorted) :
                        sorted[i].profit_rate >= x.profit_rate })
      F[i \in 0..Len(history)] ==
        IF i = 0 THEN <<>>
        ELSE LET k == before(history[i], F[i - 1])
             IN SubSeq(F[i - 1], 1, k) \o <<history[i]>>
                  \o SubSeq(F[i - 1], k + 1, Len(F[i - 1]))
  IN F[Len(history)]

\* The history array after a render: no statement of the component assigns
\* to it or to one of its trades; the reductions build new objects and the
\* sort works on the array Object.entries returns.
HistoryAfterRender(history) == history

\* One render pass of TradingHistoryPage with t bound to language lang.
Render(lang, history, summary) ==
  LET sectors == sectorPerformance(lang, history)
      periods == periodPerformance(lang, history)
      top == sortedSectors(sectors)
  IN [bestTrade |-> bestTrade(history),
      worstTrade |-> worstTrade(history),
      sectorPerformance |-> sectors,
      sortedSectors |-> top,
      periodPerformance |-> periods,
      statCards |-> StatCards(summary),
      sections |-> Sections(history, top, periods),
      periodRows |-> PeriodRows(history, periods),
      rows |-> DetailRows(history),
      details |-> DetailCards(history)]

VARIABLES
  pc,          \* per provider: "unmounted", "rendered" (first render done,
               \*   mount effect pending), "mounted" (mount effect has run)
  language,    \* per provider: the useState value
  storage,     \* localStorage item "language": <<>> or <<string>>
  stored,      \* per provider: what the mount effect read, <<>> before it ran
  lastCall,    \* <<>> or <<[provider, lang]>>: the latest setLanguage call
  tResult,     \* <<>> or <<[language, key, value]>>: the latest t call
  hookResult,  \* <<>> or <<[scope, threw, value]>>: latest useLanguage call
  reads,       \* per provider: getItem calls made since its first render
  lastWrites,  \* the values the latest setLanguage call passed to setItem
  history,     \* the history prop of TradingHistoryPage
  summary,     \* the summary prop of TradingHistoryPage
  page         \* <<>> or <<what the latest render of the page computed>>

provider == <<pc, language, storage, stored, lastCall, tResult, reads,
              lastWrites>>
vars == <<pc, language, storage, stored, lastCall, tResult, hookResult,
          reads, lastWrites, history, summary, page>>

Init ==
  /\ pc = [p \in Providers |-> "unmounted"]
  /\ language = [p \in Providers |-> "ko"]
  /\ storage \in StorageValues
  /\ stored = [p \in Providers |-> <<>>]
  /\ lastCall = <<>>
  /\ tResult = <<>>
  /\ hookResult = <<>>
  /\ reads = [p \in Providers |-> 0]
  /\ lastWrites = <<>>
  /\ history = <<>>
  /\ summary = EmptySummary
  /\ page = <<>>

\* First render of a provider: useState("ko"); the mount effect is pending.
Mount(p) ==
  /\ pc[p] = "unmounted"
  /\ pc' = [pc EXCEPT ![p] = "rendered"]
  /\ language' = [language EXCEPT ![p] = "ko"]
  /\ stored' = [stored EXCEPT ![p] = <<>>]
  /\ reads' = [reads EXCEPT ![p] = 0]
  /\ UNCHANGED <<storage, lastCall, tResult, hookResult, lastWrites,
                 history, summary, page>>

\* Variant: any stored string is taken for a language.
IsSupportedAny(item) == item # <<>>

\* stored === "ko" || stored === "en"
IsSupported(item) == item = <<"ko">> \/ item = <<"en">>

\* Variant: the mount effect does not adopt the stored language.
LoadLanguageIgnored(current, item) == current

\* The language after the mount effect has read item from localStorage.
LoadLanguage(current, item) == IF IsSupported(item) THEN item[1] ELSE current

\* Variant: the mount effect also persists the language it ends up with.
MountEffectPersists(p) ==
  /\ pc[p] = "rendered"
  /\ stored' = [stored EXCEPT ![p] = <<storage>>]
  /\ language' = [language EXCEPT ![p] = LoadLanguage(language[p], storage)]
  /\ storage' = <<LoadLanguage(language[p], storage)>>
  /\ pc' = [pc EXCEPT ![p] = "mounted"]
  /\ reads' = [reads EXCEPT ![p] = @ + 1]
  /\ UNCHANGED <<lastCall, tResult, hookResult, lastWrites,
                 history, summary, page>>

\* useEffect(() => {...}, []): runs once after the first render.
MountEffect(p) ==
  /\ pc[p] = "rendered"
  /\ stored' = [stored EXCEPT ![p] = <<storage>>]
  /\ language' = [language EXCEPT ![p] = LoadLanguage(language[p], storage)]
  /\ pc' = [pc EXCEPT ![p] = "mounted"]
  /\ reads' = [reads EXCEPT ![p] = @ + 1]
  /\ UNCHANGED <<storage, lastCall, tResult, hookResult, lastWrites,
                 history, summary, page>>

\* Variant: setLanguage without the localStorage write.
SetItemSkipped(item, lang) == item

\* localStorage.setItem("language", lang)
SetItem(item, lang) == <<lang>>

\* Variant: every mounted provider follows the language that was set.
SetLanguageBroadcast(p, lang) ==
  /\ pc[p] = "mounted"
  /\ language' = [q \in Providers |->
                    IF pc[q] = "mounted" THEN lang ELSE language[q]]
  /\ storage' = SetItem(storage, lang)
  /\ lastCall' = <<[provider |-> p, lang |-> lang]>>
  /\ lastWrites' = <<lang>>
  /\ UNCHANGED <<pc, stored, tResult, hookResult, reads, history, summary,
                 page>>

\* setLanguage(lang), called from an event handler of a consumer: React runs
\* pending mount effects before it dispatches the event.
SetLanguage(p, lang) ==
  /\ pc[p] = "mounted"
  /\ language' = [language EXCEPT ![p] = lang]
  /\ storage' = SetItem(storage, lang)
  /\ lastCall' = <<[provider |-> p, lang |-> lang]>>
  /\ lastWrites' = <<lang>>
  /\ UNCHANGED <<pc, stored, tResult, hookResult, reads, history, summary,
                 page>>

\* The provider leaves the tree; its state is discarded.
Unmount(p) ==
  /\ pc[p] # "unmounted"
  /\ pc' = [pc EXCEPT ![p] = "unmounted"]
  /\ language' = [language EXCEPT ![p] = "ko"]
  /\ stored' = [stored EXCEPT ![p] = <<>>]
  /\ reads' = [reads EXCEPT ![p] = 0]
  /\ UNCHANGED <<storage, lastCall, tResult, hookResult, lastWrites,
                 history, summary, page>>

\* A consumer of provider p calls t(key).
T(p, key) ==
  /\ pc[p] # "unmounted"
  /\ tResult' = <<[language |-> language[p], key |-> key,
                   value |-> t(language[p], key)]>>
  /\ UNCHANGED <<pc, language, storage, stored, lastCall, hookResult,
                 reads, lastWrites, history, summary, page>>

\* Scope of a component that calls useLanguage: inside provider p, or 0 when
\* no LanguageProvider is above it.
NoProvider == 0

\* value={{ language, setLanguage, t }}: setLanguage and t are closures of
\* provider p, t over the language of the current render.
ProviderValue(p) == [language |-> language[p], setLanguage |-> p,
                     t |-> language[p]]

\* useContext(LanguageContext): the nearest provider's value, else the
\* default given to createContext, which is undefined.
UseContext(scope) ==
  IF scope = NoProvider THEN <<>> ELSE <<ProviderValue(scope)>>

\* Variant: a default context returned instead of the throw.
useLanguageDefault(scope) ==
  LET context == UseContext(scope)
  IN IF context = <<>>
       THEN [scope |-> scope, threw |-> FALSE,
             value |-> <<[language |-> "ko", setLanguage |-> scope,
                          t |-> "ko"]>>]
       ELSE [scope |-> scope, threw |-> FALSE, value |-> context]

\* useLanguage(): throws when the context is undefined, else returns it.
useLanguage(scope) ==
  LET context == UseContext(scope)
  IN IF context = <<>>
       THEN [scope |-> scope, threw |-> TRUE, value |-> <<>>]
       ELSE [scope |-> scope, threw |-> FALSE, value |-> context]

UseLanguage(scope) ==
  /\ scope # NoProvider => pc[scope] # "unmounted"
  /\ hookResult' = <<useLanguage(scope)>>
  /\ UNCHANGED <<pc, language, storage, stored, lastCall, tResult,
                 reads, lastWrites, history, summary, page>>

Next ==
  \/ \E p \in Providers : Mount(p)
  \/ \E p \in Providers : MountEffect(p)
  \/ \E p \in Providers, lang \in Language : SetLanguage(p, lang)
  \/ \E p \in Providers : Unmount(p)
  \/ \E p \in Providers, key \in TKeys : T(p, key)
  \/ \E scope \in Providers \cup {NoProvider} : UseLanguage(scope)

Spec == Init /\ [][Next]_vars

\* The page under a mounted provider (provider 1) that has adopted or been
\* set to either language, given any trade list.
PageInit ==
  /\ pc = [p \in Providers |-> IF p = 1 THEN "mounted" ELSE "unmounted"]
  /\ \E lang \in Language :
       /\ language = [p \in Providers |-> IF p = 1 THEN lang ELSE "ko"]
       /\ storage = <<lang>>
       /\ stored = [p \in Providers |-> IF p = 1 THEN <<(<<lang>>)>> ELSE <<>>]
  /\ lastCall = <<>>
  /\ tResult = <<>>
  /\ hookResult = <<>>
  /\ reads = [p \in Providers |-> IF p = 1 THEN 1 ELSE 0]
  /\ lastWrites = <<>>
  /\ history \in Histories
  /\ summary \in Summaries
  /\ page = <<>>

\* TradingHistoryPage({ history, summary }): const { t } = useLanguage(),
\* then the derived aggregates and the element tree.
RenderPage(scope) ==
  LET context == useLanguage(scope)
  IN /\ scope # NoProvider => pc[scope] # "unmounted"
     /\ hookResult' = <<context>>
     /\ page' = IF context.threw THEN <<>>
                ELSE <<Render(context.value[1].t, history, summary)>>
     /\ history' = IF context.threw THEN history
                   ELSE HistoryAfterRender(history)
     /\ UNCHANGED <<provider, summary>>

PageNext == \E scope \in Providers \cup {NoProvider} : RenderPage(scope)

PageSpec == PageInit /\ [][PageNext]_vars

\* The page given a list of one trade whose scenario fields vary freely.
DetailInit ==
  /\ pc = [p \in Providers |-> IF p = 1 THEN "mounted" ELSE "unmounted"]
  /\ \E lang \in Language :
       /\ language = [p \in Providers |-> IF p = 1 THEN lang ELSE "ko"]
       /\ storage = <<lang>>
       /\ stored = [p \in Providers |-> IF p = 1 THEN <<(<<lang>>)>> ELSE <<>>]
  /\ lastCall = <<>>
  /\ tResult = <<>>
  /\ hookResult = <<>>
  /\ reads = [p \in Providers |-> IF p = 1 THEN 1 ELSE 0]
  /\ lastWrites = <<>>
  /\ history \in { <<trade>> : trade \in DetailTrades }
  /\ summary = EmptySummary
  /\ page = <<>>

DetailSpec == DetailInit /\ [][PageNext]_vars

(***************************************************************************)
(* Properties                                                              *)
(***************************************************************************)
Rendered == page # <<>>

\* The language t was bound to in the render that produced page.
PageLang == hookResult[1].value[1].t

Range(array) == { array[i] : i \in 1..Len(array) }

\* Sum of the profit rates of the trades at the positions in members.
SumRates(members) ==
  LET F[i \in 0..Len(history)] ==
        IF i = 0 THEN 0
        ELSE F[i - 1] + (IF i \in members THEN history[i].profit_rate ELSE 0)
  IN F[Len(history)]

\* The group labels of the trades under the language of the render.
SectorLabels ==
  [i \in 1..Len(history) |-> SectorLabel(PageLang, history[i]).str]

PeriodLabels ==
  [i \in 1..Len(history) |-> PeriodLabel(PageLang, history[i]).str]

\* C1: for a non-empty trade list the best trade is an element of the list
\* whose profit_rate is >= that of every trade, and the worst trade an
\* element whose profit_rate is <= that of every trade.
BestWorstExtremal ==
  (Rendered /\ Len(history) > 0) =>
    /\ page[1].bestTrade \in Range(history)
    /\ page[1].worstTrade \in Range(history)
    /\ \A trade \in Range(history) :
         /\ page[1].bestTrade.profit_rate >= trade.profit_rate
         /\ page[1].worstTrade.profit_rate <= trade.profit_rate

\* The reductions moved away from their initial value history[0].
BestWorstExtremalWitness ==
  /\ Rendered
  /\ Len(history) >= 3
  /\ page[1].bestTrade # history[1]
  /\ page[1].worstTrade # history[1]
  /\ page[1].bestTrade.profit_rate > page[1].worstTrade.profit_rate

\* The entry of a grouping is the exact mean of the trades with its label.
IsMeanOf(entry, labels) ==
  LET members == { i \in 1..Len(history) : labels[i] = entry.key }
  IN /\ members # {}
     /\ entry.total = SumRates(members)
     /\ entry.count = Cardinality(members)
     /\ entry.avgProfit.den # 0
     /\ entry.avgProfit.num * Cardinality(members)
          = SumRates(members) * entry.avgProfit.den

\* C2: in both groupings the avgProfit reported for a group equals the
\* arithmetic mean (total / count) of the profit_rate of exactly the trades
\* whose label (the field, or the fallback label) is that group.
GroupAverageIsMean ==
  Rendered =>
    /\ \A entry \in Range(page[1].sectorPerformance) :
         IsMeanOf(entry, SectorLabels)
    /\ \A entry \in Range(page[1].periodPerformance) :
         IsMeanOf(entry, PeriodLabels)

\* A group of several trades, one of them labelled by the fallback, whose
\* mean is not an integer.
GroupAverageIsMeanWitness ==
  /\ Rendered
  /\ \E entry \in Range(page[1].sectorPerformance) :
       /\ entry.key = "common.other"
       /\ entry.count >= 2
       /\ entry.total % entry.count # 0
  /\ \E entry \in Range(page[1].periodPerformance) : entry.count >= 2

SumCounts(perf) ==
  LET F[i \in 0..Len(perf)] == IF i = 0 THEN 0 ELSE F[i - 1] + perf[i].count
  IN F[Len(perf)]

\* C3: in both groupings every trade is counted in exactly one group: the
\* groups' counts add up to the length of the trade list.
CountsSumToLength ==
  Rendered =>
    /\ SumCounts(page[1].sectorPerformance) = Len(history)
    /\ SumCounts(page[1].periodPerformance) = Len(history)

Min(a, b) == IF a < b THEN a ELSE b

\* avgProfit of x is <= avgProfit of y.
AvgLeq(x, y) ==
  x.avgProfit.num * y.avgProfit.den <= y.avgProfit.num * x.avgProfit.den

\* C4: the top-3 sector list has min(3, number of sector groups) entries,
\* is ordered by non-increasing average, and every group left out of it has
\* an average <= that of every entry in it.
TopThreeSectors ==
  Rendered =>
    LET all == page[1].sectorPerformance
        top == page[1].sortedSectors
    IN /\ Len(top) = Min(3, Len(all))
       /\ Range(top) \subseteq Range(all)
       /\ Cardinality(Range(top)) = Len(top)
       /\ \A i \in 1..Len(top) - 1 : AvgLeq(top[i + 1], top[i])
       /\ \A out \in Range(all) \ Range(top) :
            \A in \in Range(top) : AvgLeq(out, in)

\* More than three groups, the sort reordered them, and a group with a
\* strictly smaller average was cut.
TopThreeSectorsWitness ==
  /\ Rendered
  /\ Len(page[1].sectorPerformance) > 3
  /\ page[1].sortedSectors # SubSeq(page[1].sectorPerformance, 1, 3)
  /\ \E out \in Range(page[1].sectorPerformance) \ Range(page[1].sortedSectors) :
       ~AvgLeq(page[1].sortedSectors[3], out)

\* A render of the page that did not throw.
RenderedUnderProvider == hookResult # <<>> /\ ~hookResult[1].threw

\* C5: with an empty trade list the render completes, the best and the worst
\* trade are the placeholder with profit_rate 0, and the sector grouping,
\* the top-3 list and the period grouping are empty.
EmptyHistoryNeutral ==
  (RenderedUnderProvider /\ Len(history) = 0) =>
    /\ Rendered
    /\ page[1].bestTrade.profit_rate = 0
    /\ page[1].worstTrade.profit_rate = 0
    /\ page[1].bestTrade = page[1].worstTrade
    /\ page[1].sectorPerformance = <<>>
    /\ page[1].sortedSectors = <<>>
    /\ page[1].periodPerformance = <<>>

EmptyHistoryNeutralWitness ==
  /\ RenderedUnderProvider
  /\ Len(history) = 0
  /\ Rendered
  /\ "id" \notin DOMAIN page[1].bestTrade

AggregateCards == {"statCards", "bestWorstCards", "sectorCard", "periodCard"}

\* C6 as stated: the placeholder is rendered iff the list is empty, and when
\* it is rendered no aggregate card and no listing section is rendered.
EmptyStateReplacesAll ==
  Rendered =>
    /\ "emptyState" \in page[1].sections <=> Len(history) = 0
    /\ "emptyState" \in page[1].sections =>
         page[1].sections \cap (AggregateCards \cup {"detailCard"}) = {}

\* C6 amended: the placeholder is rendered iff the list is empty; when it is
\* rendered the best/worst cards, the sector card, the period card and every
\* trade row are absent, while the summary stat cards and the frame of the
\* detail list are rendered for every list.
EmptyStateReplacesDerived ==
  Rendered =>
    /\ "emptyState" \in page[1].sections <=> Len(history) = 0
    /\ "emptyState" \in page[1].sections =>
         /\ page[1].sections \cap {"bestWorstCards", "sectorCard", "periodCard"}
              = {}
         /\ page[1].rows = <<>>
    /\ {"statCards", "detailCard"} \subseteq page[1].sections

EmptyStateReplacesDerivedWitness ==
  /\ Rendered
  /\ Len(history) = 0
  /\ page[1].sections = {"statCards", "detailCard", "emptyState"}

\* C7: t(key) returns a string: the dictionary's string when key is in the
\* active locale's dictionary, the key itself when it is not.
TReturnsStringOrKey ==
  tResult # <<>> =>
    LET call == tResult[1]
        dict == translations[call.language]
    IN /\ call.value.type = "string"
       /\ call.value.str = IF call.key \in DOMAIN dict THEN dict[call.key]
                           ELSE call.key

\* C8: after a setLanguage call on a mounted provider the stored value and
\* that provider's language both equal the argument of the latest call.
SetLanguagePersists ==
  (lastCall # <<>> /\ pc[lastCall[1].provider] = "mounted") =>
    /\ storage = <<lastCall[1].lang>>
    /\ language[lastCall[1].provider] = lastCall[1].lang

\* A provider that loaded "en" and was last set to "ko".
SetLanguagePersistsWitness ==
  /\ lastCall # <<>>
  /\ lastCall[1].lang = "ko"
  /\ pc[lastCall[1].provider] = "mounted"
  /\ stored[lastCall[1].provider] = <<(<<"en">>)>>
  /\ storage = <<"ko">>

\* C9: a provider whose mount effect finds a supported locale in storage has
\* that language from then on, with no setLanguage call.
FreshProviderAdopts ==
  [][\A p \in Providers :
       (pc[p] = "rendered" /\ pc'[p] = "mounted" /\ IsSupported(storage))
         => (language'[p] = storage[1] /\ storage' = storage
             /\ lastCall' = lastCall)]_vars

\* A second provider started after a setLanguage("en") on the first one
\* reports "en" although its own state began as "ko".
FreshProviderAdoptsWitness ==
  \E p, q \in Providers :
    /\ p # q
    /\ lastCall = <<[provider |-> p, lang |-> "en"]>>
    /\ pc[q] = "mounted"
    /\ stored[q] = <<(<<"en">>)>>
    /\ language[q] = "en"

\* C10: useLanguage outside a LanguageProvider throws and returns nothing;
\* inside a provider it does not throw and returns that provider's
\* language, setLanguage and t.
UseLanguageScoped ==
  [][\A scope \in Providers \cup {NoProvider} :
       UseLanguage(scope) =>
         LET result == hookResult'[1]
         IN IF scope = NoProvider
              THEN result.threw /\ result.value = <<>>
              ELSE /\ ~result.threw
                   /\ result.value = <<[language |-> language[scope],
                                        setLanguage |-> scope,
                                        t |-> language[scope]]>>]_vars

\* Both outcomes: the latest call threw outside any provider while a provider
\* with a non-default language is mounted.
UseLanguageScopedWitness ==
  /\ hookResult # <<>>
  /\ hookResult[1].scope = NoProvider
  /\ hookResult[1].threw
  /\ \E p \in Providers : pc[p] = "mounted" /\ language[p] = "en"

Abs(n) == IF n < 0 THEN -n ELSE n

\* The trade has a target price: a scenario with a non-zero target_price.
HasTarget(trade) ==
  /\ trade.scenario # <<>>
  /\ trade.scenario[1].target_price # <<>>
  /\ trade.scenario[1].target_price[1] # 0

\* C11: the target-achievement cell of a trade shows
\* sell_price / target_price * 100 rounded to an integer, followed by "%",
\* exactly when the trade has a target price, and "-" exactly when it has
\* none; sell_price 11000 with target_price 10000 shows "110%".
TargetAchievementCell ==
  Rendered =>
    \A i \in 1..Len(history) :
      LET trade == history[i]
          cell == page[1].details[i].achievement
      IN /\ HasTarget(trade) =>
              \E n \in 0..((100 * trade.sell_price)
                             \div trade.scenario[1].target_price[1] + 1) :
                /\ cell = ToString(n) \o "%"
                /\ 2 * Abs(100 * trade.sell_price
                             - n * trade.scenario[1].target_price[1])
                     <= trade.scenario[1].target_price[1]
         /\ ~HasTarget(trade) => cell = "-"
         /\ (cell = "-") => ~HasTarget(trade)
         /\ (HasTarget(trade) /\ trade.sell_price = 11000
               /\ trade.scenario[1].target_price[1] = 10000) => cell = "110%"

\* A quotient that is rounded up: 2 / 3 * 100 shows "67%".
TargetAchievementCellWitness ==
  /\ Rendered
  /\ Len(history) = 1
  /\ history[1].sell_price = 2
  /\ HasTarget(history[1])
  /\ page[1].details[1].achievement = "67%"

\* C12: a provider's language is "ko" on creation and always one of "ko" and
\* "en"; when the value stored at startup is absent or another string, the
\* mount effect leaves the language "ko" and the stored value as it was.
LanguageAlwaysSupported ==
  /\ [](\A p \in Providers :
          /\ language[p] \in {"ko", "en"}
          /\ pc[p] = "rendered" => language[p] = "ko")
  /\ [][\A p \in Providers :
          (pc[p] = "rendered" /\ pc'[p] = "mounted"
             /\ storage \notin {<<"ko">>, <<"en">>})
            => (language'[p] = "ko" /\ storage' = storage)]_vars

\* A provider that found an unsupported string and a provider that found
\* nothing, both mounted with "ko".
LanguageAlwaysSupportedWitness ==
  /\ storage = <<"fr">>
  /\ \E p \in Providers :
       /\ pc[p] = "mounted"
       /\ stored[p] = <<(<<"fr">>)>>
       /\ language[p] = "ko"

\* C13: the key "language" is read once at provider startup and written by
\* setLanguage only: each setLanguage call makes exactly one write, of its
\* argument, and every other step (first render, mount effect, t,
\* useLanguage, unmount) leaves the stored value as it was.
StorageReadOnceWrittenOnSet ==
  /\ [](\A p \in Providers :
          reads[p] = IF pc[p] = "mounted" THEN 1 ELSE 0)
  /\ [][/\ \A p \in Providers, lang \in Language :
             SetLanguage(p, lang) =>
               /\ lastWrites' = <<lang>>
               /\ storage' = <<lang>>
               /\ reads' = reads
        /\ (~ \E p \in Providers, lang \in Language : SetLanguage(p, lang))
             => (storage' = storage /\ lastWrites' = lastWrites)]_vars

\* One write by setLanguage, one read by each of two mounted providers, and
\* a t call in between.
StorageReadOnceWrittenOnSetWitness ==
  /\ lastWrites = <<"en">>
  /\ storage = <<"en">>
  /\ tResult # <<>>
  /\ \E p, q \in Providers :
       p # q /\ pc[p] = "mounted" /\ pc[q] = "mounted"
         /\ reads[p] = 1 /\ reads[q] = 1

\* An optional text is present: it is set and not empty.
NonEmpty(opt) == opt # <<>> /\ opt[1] # ""

\* The element of each optional field of a scenario.
FieldElements ==
  {"rationaleText", "portfolioAnalysis", "valuationAnalysis", "sectorOutlook",
   "marketCondition", "tradingScenarios", "keyLevels", "primarySupport",
   "secondarySupport", "primaryResistance", "secondaryResistance",
   "sellTriggers", "holdConditions", "portfolioContext"}

\* The field shown by element is present in the scenario of trade (a field
\* below an absent parent is absent; an empty list is absent).
FieldPresent(trade, element) ==
  LET scenario == trade.scenario[1]
      scenarios == scenario.trading_scenarios
      levels == IF scenarios = <<>> THEN <<>> ELSE scenarios[1].key_levels
      items(list) == list # <<>> /\ Len(list[1]) > 0
  IN CASE element = "rationaleText" -> NonEmpty(scenario.rationale)
       [] element = "portfolioAnalysis" -> NonEmpty(scenario.portfolio_analysis)
       [] element = "valuationAnalysis" -> NonEmpty(scenario.valuation_analysis)
       [] element = "sectorOutlook" -> NonEmpty(scenario.sector_outlook)
       [] element = "marketCondition" -> NonEmpty(scenario.market_condition)
       [] element = "tradingScenarios" -> scenarios # <<>>
       [] element = "keyLevels" -> levels # <<>>
       [] element = "primarySupport" ->
            levels # <<>> /\ NonEmpty(levels[1].primary_support)
       [] element = "secondarySupport" ->
            levels # <<>> /\ NonEmpty(levels[1].secondary_support)
       [] element = "primaryResistance" ->
            levels # <<>> /\ NonEmpty(levels[1].primary_resistance)
       [] element = "secondaryResistance" ->
            levels # <<>> /\ NonEmpty(levels[1].secondary_resistance)
       [] element = "sellTriggers" ->
            scenarios # <<>> /\ items(scenarios[1].sell_triggers)
       [] element = "holdConditions" ->
            scenarios # <<>> /\ items(scenarios[1].hold_conditions)
       [] element = "portfolioContext" ->
            scenarios # <<>> /\ NonEmpty(scenarios[1].portfolio_context)

\* Every optional field of the card i is rendered iff it is present.
FieldsRenderedIffPresent(i) ==
  LET trade == history[i]
      elements == page[1].details[i].elements
  IN IF trade.scenario = <<>> THEN elements = {}
     ELSE \A element \in FieldElements :
            element \in elements <=> FieldPresent(trade, element)

\* C14 as stated: each optional scenario field is rendered iff it is
\* present, independently of the others, and an absent field contributes no
\* element to the layout: for the rationale neither its text nor its box.
AbsentFieldLeavesNoElement ==
  Rendered =>
    \A i \in 1..Len(history) :
      /\ FieldsRenderedIffPresent(i)
      /\ (history[i].scenario # <<>>
            /\ ~FieldPresent(history[i], "rationaleText"))
           => "rationaleBox" \notin page[1].details[i].elements

\* C14 amended: each optional scenario field is rendered iff it is present,
\* independently of the others, and an absent field contributes no element,
\* except that the rationale box with its heading is rendered for every
\* trade that has a scenario; the lists show exactly their items.
OptionalFieldsOmitted ==
  Rendered =>
    \A i \in 1..Len(history) :
      LET trade == history[i]
          card == page[1].details[i]
      IN /\ FieldsRenderedIffPresent(i)
         /\ trade.scenario # <<>> =>
              /\ {"scenarioSection", "rationaleBox"} \subseteq card.elements
              /\ card.elements
                   \subseteq FieldElements \cup {"scenarioSection", "rationaleBox"}
              /\ "sellTriggers" \in card.elements =>
                   card.sellTriggerItems
                     = trade.scenario[1].trading_scenarios[1].sell_triggers[1]
              /\ "holdConditions" \in card.elements =>
                   card.holdConditionItems
                     = trade.scenario[1].trading_scenarios[1].hold_conditions[1]
         /\ "sellTriggers" \notin card.elements => card.sellTriggerItems = <<>>
         /\ "holdConditions" \notin card.elements
              => card.holdConditionItems = <<>>

\* A scenario without rationale, with an empty sell-trigger list and a
\* filled hold-condition list, and key levels of which one is set.
OptionalFieldsOmittedWitness ==
  /\ Rendered
  /\ Len(history) = 1
  /\ history[1].scenario # <<>>
  /\ history[1].scenario[1].rationale = <<>>
  /\ history[1].scenario[1].sector_outlook # <<>>
  /\ history[1].scenario[1].trading_scenarios # <<>>
  /\ history[1].scenario[1].trading_scenarios[1].sell_triggers = <<(<<>>)>>
  /\ page[1].details[1].elements
       = {"scenarioSection", "rationaleBox", "sectorOutlook",
          "tradingScenarios", "keyLevels", "secondaryResistance",
          "holdConditions"}

\* C15: for every non-empty trade list the number of period rows rendered
\* equals the number of distinct investment-period labels in the list, all
\* trades without scenario or investment_period sharing one fallback label.
PeriodRowsAllGroups ==
  (Rendered /\ Len(history) > 0) =>
    Len(page[1].periodRows) = Cardinality(Range(PeriodLabels))

\* C16: a render of TradingHistoryPage does not mutate its inputs: after it
\* the trade list holds the same trades in the same order with the same
\* field values, and the summary is the same.
RenderLeavesInputs ==
  [][\A scope \in Providers \cup {NoProvider} :
       RenderPage(scope) => /\ history' = history
                            /\ summary' = summary]_vars

\* A page rendered from a list that neither starts with its best trade nor
\* is in the order of the top-3 sort, and from a summary with values.
RenderLeavesInputsWitness ==
  /\ Rendered
  /\ Len(history) >= 3
  /\ page[1].bestTrade # history[1]
  /\ Len(page[1].sortedSectors) = 3
  /\ page[1].sortedSectors # SubSeq(page[1].sectorPerformance, 1, 3)
  /\ summary # EmptySummary

\* The trades whose sector label is the fallback: those without scenario or
\* sector, and those whose sector is the fallback key itself.
FallbackSectorTrades ==
  { i \in 1..Len(history) :
      \/ ~Truthy(ScenarioSector(history[i]))
      \/ ScenarioSector(history[i]) = Str("common.other") }

\* C17: neither dictionary defines "common.other" or "common.unclassified",
\* so in both languages the fallback labels are these literal strings; the
\* sector and period aggregates of a render are the same under "ko" and
\* "en"; and a trade whose sector is the string "common.other" is counted
\* in the fallback group.
FallbackLabelsLiteral ==
  /\ \A lang \in Language :
       /\ {"common.other", "common.unclassified"}
            \cap DOMAIN translations[lang] = {}
       /\ t(lang, "common.other") = Str("common.other")
       /\ t(lang, "common.unclassified") = Str("common.unclassified")
  /\ Rendered =>
       /\ \A lang \in Language :
            /\ page[1].sectorPerformance = sectorPerformance(lang, history)
            /\ page[1].periodPerformance = periodPerformance(lang, history)
            /\ page[1].sortedSectors
                 = sortedSectors(sectorPerformance(lang, history))
       /\ \A i \in FallbackSectorTrades : SectorLabels[i] = "common.other"
       /\ FallbackSectorTrades # {} =>
            \E k \in 1..Len(page[1].sectorPerformance) :
              /\ page[1].sectorPerformance[k].key = "common.other"
              /\ page[1].sectorPerformance[k].count
                   = Cardinality(FallbackSectorTrades)

\* Rendered in English: a trade without scenario and a trade whose sector is
\* "common.other" make one group of two, next to another group.
FallbackLabelsLiteralWitness ==
  /\ Rendered
  /\ PageLang = "en"
  /\ \E i, j \in 1..Len(history) :
       /\ history[i].scenario = <<>>
       /\ ScenarioSector(history[j]) = Str("common.other")
  /\ Len(page[1].sectorPerformance) >= 2
  /\ \E entry \in Range(page[1].sectorPerformance) :
       entry.key = "common.other" /\ entry.count = 2
  /\ \E entry \in Range(page[1].periodPerformance) :
       entry.key = "common.unclassified" /\ entry.count >= 2

\* The earliest position of history whose profit_rate is the highest (sign
\* 1) or the lowest (sign -1) of the list.
EarliestExtreme(sign) ==
  CHOOSE i \in 1..Len(history) :
    /\ \A j \in 1..Len(history) :
         sign * history[j].profit_rate <= sign * history[i].profit_rate
    /\ \A j \in 1..(i - 1) :
         history[j].profit_rate # history[i].profit_rate

\* C18: among the trades sharing the maximum profit_rate the best trade is
\* the earliest of the list, among those sharing the minimum the worst
\* trade is the earliest; for a one-element list both are that one trade.
TiesGoToEarliest ==
  (Rendered /\ Len(history) > 0) =>
    /\ page[1].bestTrade = history[EarliestExtreme(1)]
    /\ page[1].worstTrade = history[EarliestExtreme(-1)]
    /\ Len(history) = 1 =>
         /\ page[1].bestTrade = history[1]
         /\ page[1].worstTrade = page[1].bestTrade

\* Two trades share the maximum and two share the minimum; the best trade
\* is the earlier of the first pair without being the head of the list.
TiesGoToEarliestWitness ==
  /\ Rendered
  /\ Len(history) = 4
  /\ \E i, j \in 2..4 :
       /\ i < j
       /\ history[i].profit_rate = history[j].profit_rate
       /\ page[1].bestTrade = history[i]
       /\ history[j] # history[i]
  /\ \E i, j \in 1..4 :
       /\ i < j
       /\ history[i].profit_rate = history[j].profit_rate
       /\ page[1].worstTrade = history[i]
       /\ history[j] # history[i]

\* C19: with several providers mounted over the same storage, setLanguage
\* on one of them changes the stored value and the language of that
\* provider and leaves the language of every other provider as it was (so
\* a mounted provider can hold a language other than the stored one).
SetLanguageIsLocal ==
  [][\A p \in Providers, lang \in Language :
       SetLanguage(p, lang) =>
         /\ storage' = <<lang>>
         /\ language'[p] = lang
         /\ \A q \in Providers \ {p} :
              language'[q] = language[q] /\ pc'[q] = pc[q]]_vars

\* Two providers mounted over an empty storage; the first was then set to
\* "en", and the second, still mounted, holds "ko" while storage holds "en".
SetLanguageIsLocalWitness ==
  /\ \A p \in {1, 2} : pc[p] = "mounted" /\ stored[p] = <<(<<>>)>>
  /\ lastCall = <<[provider |-> 1, lang |-> "en"]>>
  /\ storage = <<"en">>
  /\ language[1] = "en"
  /\ language[2] = "ko"
  /\ <<language[2]>> # storage

====
